---- MODULE Spec2Model ----
(***************************************************************************)
(* Batch ingestion core: the trigger guard (observer/handler.py), the      *)
(* pipeline orchestrator (pipeline/run_all.py), the ETL stage and its load *)
(* orchestrator (pipeline/etl.py) and the upload path that creates the     *)
(* trigger (api/upload.py, services/storage.py).                           *)
(*                                                                         *)
(* on_created is called on callback threads; each thread handles one event *)
(* at a time.  Python semantics used throughout: `except Exception` does   *)
(* not catch SystemExit (raised by sys.exit), `finally` runs for both, and *)
(* an exception that leaves on_created uncaught ends the thread that       *)
(* called it: nothing in the repository catches it (run_observer.py only   *)
(* guards its own sleep loop on the main thread).                          *)
(***************************************************************************)
EXTENDS Integers, Sequences, FiniteSets, Bags, TLC

\* ----------------------------------------------------------------- bounds
NumThreads == 2     \* callback threads on which on_created is called
MaxEvents  == 2     \* creation events of the trigger file over a behaviour
MaxFiles   == 1     \* distinct raw batch files that can be uploaded
MaxClock   == 1     \* distinct values of time.strftime("%Y%m%d_%H%M%S") seen by load
MaxFaults  == 1     \* failures (exceptions, sys.exit) injected over a behaviour
MaxProducts == 2    \* distinct product ids
MaxPrice    == 2    \* distinct prices
MaxDate     == 2    \* distinct transaction dates (days)
DaysPerMonth == 2   \* days d with the same d \div DaysPerMonth share a month
MaxReceipts == 1    \* distinct receipt numbers
MaxLines    == 2    \* rows of the combined frame handed to load()
MaxRuns     == 3    \* calls of load() over a behaviour
MaxFactDate == 3    \* distinct dates of the frames the month filter is called on
MaxFactLines == 3   \* rows of those frames
MaxSalesVal == 2    \* values of a column of the sales transactions list
MaxSalesRows == 3   \* rows of a sales transactions list
MaxWords == 2       \* words of a product name
MaxVersions == 2    \* versions a product has before an incremental turn
MaxVal      == 2    \* distinct values of a column in a call of the upsert
MaxRows     == 2    \* rows of the table, and of the CSV, in a call of the upsert

Threads  == 1..NumThreads
RawFiles == 1..MaxFiles

\* ------------------------------------------------------ program constants
Free == 0              \* threading.Lock(): unlocked
LandingComplete == 0   \* the "_complete" object of the landing bucket
NumStages == 5         \* len(pipeline_steps)

\* pipeline_steps of run_all.execute_pipeline, by position
StageName == <<"ETL", "MBA", "PED", "NLP", "Holt-Winters">>

\* The five derived tables, in the order load() appends them to `artifacts`
AppendOrder == <<"time_dimension", "current_product_dimension",
                 "history_product_dimension", "transaction_records",
                 "fact_transaction_dimension">>

\* Mutant: the fact table is merged before the transaction bridge.
OrderFactBeforeBridge ==
    <<"time_dimension", "current_product_dimension",
      "history_product_dimension", "fact_transaction_dimension",
      "transaction_records">>

\* `order` of load(): the strict merge sequence
order == <<"time_dimension", "current_product_dimension",
           "history_product_dimension", "transaction_records",
           "fact_transaction_dimension">>

Tables == {AppendOrder[i] : i \in 1..Len(AppendOrder)}

VARIABLES
    pc,        \* pc[h]: where thread h is inside on_created
    lock,      \* pipeline_lock: Free or the thread that holds it
    marker,    \* the file trigger_dir/complete exists
    queue,     \* creation events of the trigger file not yet dispatched
    fired,     \* creation events of the trigger file so far
    run,       \* run[h]: the locals of thread h's pipeline run
    executions,\* calls of run_all.execute_pipeline so far
    staging,   \* objects of the staging bucket: <<run_id, table>>
    landing,   \* objects of the landing bucket
    clock,     \* the latest run_id handed out by time.strftime
    faults,    \* failures injected so far
    response,  \* what handle_file_upload answered last
    \* --- the data path of load(): the permanent tables and the latest batch
    history_exists,             \* the table history_product_dimension exists
    history_product_dimension,  \* its rows (a bag of records)
    current_product_dimension,  \* rows of current_product_dimension
    fact_transaction_dimension, \* rows of fact_transaction_dimension
    has_receipt_no,             \* the tables of the latest transform() that
                                \* have the column "Receipt No"
    combined_df,                \* the frame handed to the latest load()
    mode,                       \* the dimension builder that load() chose
    outcome,                    \* how the latest load() ended
    frames,                     \* the frames the latest load() staged
    runs,                       \* calls of load() so far
    \* --- single calls of the pure helpers
    call,      \* the helper called and its arguments
    ret        \* what it returned

pipeVars == <<pc, lock, marker, queue, fired, run, executions,
              staging, landing, clock, faults, response>>

dataVars == <<history_exists, history_product_dimension,
              current_product_dimension, fact_transaction_dimension,
              has_receipt_no, combined_df, mode, outcome, frames, runs>>

fnVars == <<call, ret>>

vars == <<pipeVars, dataVars, fnVars>>

Events  == [is_directory : BOOLEAN, name : {"complete", "other"}]

InitRun == [stage |-> 0, phase |-> "-", started |-> <<>>, failedAt |-> {},
            nonEmpty |-> {}, artifacts |-> <<>>, plan |-> <<>>, merged |-> <<>>,
            prefix |-> 0, stagedObjs |-> {}, loadResult |-> "none",
            loadRaisedIn |-> "none", purged |-> FALSE, cleared |-> FALSE,
            deleted_count |-> 0, extracted |-> {}, result |-> "none"]

\* The pipeline before any event: no thread is inside on_created.
PipeIdle ==
    /\ pc = [h \in Threads |-> "idle"]
    /\ lock = Free
    /\ marker = FALSE
    /\ queue = 0
    /\ fired = 0
    /\ run = [h \in Threads |-> InitRun]
    /\ executions = 0
    /\ staging = {}
    /\ landing = {}
    /\ clock = 0
    /\ faults = 0
    /\ response = "none"

\* The tables sales_df and sales_by_product_df
BothTables == {"sales_df", "sales_by_product_df"}

\* No frame was staged.
NoFrames == [current |-> <<>>, history |-> <<>>, fact |-> <<>>]

\* The store before any load: the tables exist and are empty.
DataIdle ==
    /\ history_exists = TRUE
    /\ history_product_dimension = EmptyBag
    /\ current_product_dimension = EmptyBag
    /\ fact_transaction_dimension = EmptyBag
    /\ has_receipt_no = BothTables
    /\ combined_df = <<>>
    /\ mode = "none"
    /\ outcome = "none"
    /\ frames = NoFrames
    /\ runs = 0

\* No helper has been called.
FnIdle ==
    /\ call = [fn |-> "none"]
    /\ ret = [fn |-> "none"]

Init == PipeIdle /\ DataIdle /\ FnIdle

\* ------------------------------------------------------------ environment

\* A file named "complete" is created in the trigger directory and the watcher
\* queues its creation event.  Whoever writes the directory can do this at any
\* time (a file removed and created again counts as created).
TriggerCreated ==
    /\ fired < MaxEvents
    /\ marker' = TRUE
    /\ queue' = queue + 1
    /\ fired' = fired + 1
    /\ UNCHANGED <<pc, lock, run, executions, staging, landing, clock, faults>>
    /\ UNCHANGED <<response, dataVars, fnVars>>

\* open(trigger_file_path, "w") of handle_file_upload: the file exists
\* afterwards; the watcher reports a creation only if it did not exist before
\* (writing an existing file is a modification, which on_modified ignores).
WriteTrigger ==
    /\ marker' = TRUE
    /\ IF marker
          THEN UNCHANGED <<queue, fired>>
          ELSE queue' = queue + 1 /\ fired' = fired + 1

\* check_processing_status(): processing is in progress when the landing
\* bucket holds the "_complete" marker of a batch or the staging buffer holds
\* objects of a run.
check_processing_status == LandingComplete \in landing \/ staging # {}

\* Mutant: the answer of the probe is ignored
UploadNeverRejected(is_processing) == FALSE

\* "if is_processing: raise HTTPException(409)"
UploadRejected(is_processing) == is_processing

\* handle_file_upload with one recognised file f.  When the probe reports
\* processing the request ends with the conflict response before anything is
\* written; otherwise the file and then the "_complete" marker are put into
\* the landing bucket, then the trigger file is written.
HandleFileUpload(f) ==
    /\ IF UploadRejected(check_processing_status)
          THEN /\ response' = "conflict"
               /\ UNCHANGED <<landing, marker, queue, fired>>
          ELSE /\ marker \/ fired < MaxEvents
               /\ landing' = landing \cup {f, LandingComplete}
               /\ WriteTrigger
               /\ response' = "ok"
    /\ UNCHANGED <<pc, lock, run, executions, staging, clock, faults>>
    /\ UNCHANGED <<dataVars, fnVars>>

\* ---------------------------------------------------------- trigger guard

\* event.is_directory is false and basename(event.src_path) == "complete"
IsTrigger(ev) == ~ev.is_directory /\ ev.name = "complete"

\* on_created for an event that is not the trigger (a directory, or a file of
\* another name): it returns at once and changes nothing.
OnCreatedIgnored(h, ev) ==
    /\ pc[h] = "idle"
    /\ ~IsTrigger(ev)
    /\ UNCHANGED vars

\* on_created for the trigger file: "Trigger file detected".
OnCreatedTrigger(h) ==
    /\ pc[h] = "idle"
    /\ queue > 0
    /\ queue' = queue - 1
    /\ pc' = [pc EXCEPT ![h] = "detected"]
    /\ run' = [run EXCEPT ![h] = InitRun]
    /\ UNCHANGED <<lock, marker, fired, executions, staging, landing, clock, faults>>
    /\ UNCHANGED <<response, dataVars, fnVars>>

\* Mutant: the result of acquire is not looked at (a blocking-style call).
AcquireIgnoresHolder(l) == TRUE

\* pipeline_lock.acquire(blocking=False) returns True
AcquireSucceeds(l) == l = Free

\* Mutant: the declined branch lacks its `return` and falls into the run.
DeclineFallsThrough == "settle"

\* where the handler goes when acquire returned False: the clean-up of the
\* duplicate trigger, followed by `return`
AfterDecline == "declined"

\* if not self.pipeline_lock.acquire(blocking=False): ...
TryAcquire(h) ==
    /\ pc[h] = "detected"
    /\ IF AcquireSucceeds(lock)
          THEN /\ lock' = h
               /\ pc' = [pc EXCEPT ![h] = "settle"]
          ELSE /\ lock' = lock
               /\ pc' = [pc EXCEPT ![h] = AfterDecline]
    /\ UNCHANGED <<marker, queue, fired, run, executions, staging,
                   landing, clock, faults>>
    /\ UNCHANGED <<response, dataVars, fnVars>>

\* os.remove(event.src_path) inside try/except: the file is gone afterwards
\* (a missing file raises FileNotFoundError, which is caught and logged).
RemovedMarker(m) == FALSE

\* The declined trigger: remove the marker and return.
DeclinedCleanup(h) ==
    /\ pc[h] = "declined"
    /\ marker' = RemovedMarker(marker)
    /\ pc' = [pc EXCEPT ![h] = "idle"]
    /\ UNCHANGED <<lock, queue, fired, run, executions, staging,
                   landing, clock, faults>>
    /\ UNCHANGED <<response, dataVars, fnVars>>

\* time.sleep(0.5), then the call of run_all.execute_pipeline: the loop
\* starts with pipeline_steps[0].
Settle(h) ==
    /\ pc[h] = "settle"
    /\ pc' = [pc EXCEPT ![h] = "pipeline"]
    /\ run' = [run EXCEPT ![h] = [InitRun EXCEPT !.stage = 1, !.phase = "extract",
                                                 !.started = <<1>>]]
    /\ executions' = executions + 1
    /\ UNCHANGED <<lock, marker, queue, fired, staging, landing, clock, faults>>
    /\ UNCHANGED <<response, dataVars, fnVars>>

\* A step fails (raises) only while the fault budget lasts.
Fault   == faults < MaxFaults /\ faults' = faults + 1
NoFault == faults' = faults

\* -------------------------------------------------- run_all.execute_pipeline

\* Mutant: the release sits after the except clause instead of in `finally`,
\* so a SystemExit leaves on_created without reaching it.
ReleaseOnlyWhenCaught(e) == IF e = "SystemExit" THEN "dead" ELSE "release"

\* Where on_created continues when execute_pipeline is left with outcome e
\* ("ok": it returned): the lock is released in a `finally` block, which
\* runs for a return, an Exception and a SystemExit alike.
AfterPipeline(e) == "release"

\* The for loop of execute_pipeline after step r.stage returned: the next
\* step starts, or the loop is over and execute_pipeline returns.
Advance(h, r) ==
    IF r.stage < NumStages
       THEN /\ run' = [run EXCEPT ![h] =
                         [r EXCEPT !.stage = r.stage + 1,
                                   !.phase = "-",
                                   !.started = Append(r.started, r.stage + 1)]]
            /\ UNCHANGED pc
       ELSE /\ run' = [run EXCEPT ![h] = [r EXCEPT !.stage = 0, !.phase = "-",
                                                   !.result = "ok"]]
            /\ pc' = [pc EXCEPT ![h] = AfterPipeline("ok")]

\* Step r.stage raised e out of its main(): `except Exception` of
\* execute_pipeline logs and re-raises an Exception, and the trigger guard's
\* `except Exception` logs it; SystemExit passes both.  Either way control
\* reaches the guard's `finally`.
Propagate(h, r, e) ==
    /\ run' = [run EXCEPT ![h] = [r EXCEPT !.failedAt = r.failedAt \cup {r.stage},
                                           !.stage = 0, !.phase = "-",
                                           !.result = e]]
    /\ pc' = [pc EXCEPT ![h] = AfterPipeline(e)]

\* How the main() of a downstream step can end: "ok" is a normal return.
\* mba.main returns on a failed read and raises otherwise; ped.main, nlp.main
\* and holtwinters.main call sys.exit on a failed read (ped.main also when no
\* bundle was processed) and raise otherwise.
Outcomes(s) ==
    IF StageName[s] = "MBA" THEN {"ok", "Exception"}
                            ELSE {"ok", "Exception", "SystemExit"}

\* func() for MBA, PED, NLP, Holt-Winters
RunStage(h) ==
    /\ pc[h] = "pipeline"
    /\ run[h].stage \in 2..NumStages
    /\ \E e \in Outcomes(run[h].stage) :
          IF e = "ok" THEN Advance(h, run[h]) /\ NoFault
                      ELSE Propagate(h, run[h], e) /\ Fault
    /\ UNCHANGED <<lock, marker, queue, fired, executions, staging, landing, clock>>
    /\ UNCHANGED <<response, dataVars, fnVars>>

\* ------------------------------------------------ the guard's finally block

\* self.pipeline_lock.release()
Release(h) ==
    /\ pc[h] = "release"
    /\ lock' = Free
    /\ pc' = [pc EXCEPT ![h] = "remove"]
    /\ UNCHANGED <<marker, queue, fired, run, executions, staging,
                   landing, clock, faults>>
    /\ UNCHANGED <<response, dataVars, fnVars>>

\* What becomes of the callback thread once on_created is left: a SystemExit
\* in flight leaves on_created and ends the thread; otherwise on_created
\* returns and the thread takes the next event.
AfterHandler(e) == IF e = "SystemExit" THEN "dead" ELSE "idle"

\* os.remove(event.src_path) in the finally block, then the end of on_created.
RemoveTrigger(h) ==
    /\ pc[h] = "remove"
    /\ marker' = RemovedMarker(marker)
    /\ pc' = [pc EXCEPT ![h] = AfterHandler(run[h].result)]
    /\ run' = [run EXCEPT ![h] = [InitRun EXCEPT !.result = run[h].result]]
    /\ UNCHANGED <<lock, queue, fired, executions, staging, landing, clock, faults>>
    /\ UNCHANGED <<response, dataVars, fnVars>>

\* ------------------------------------------------------------------ etl.py

\* Mutant: the landing clean-up sits in the `finally` of main, so it also runs
\* after extract, transform or load raised.
EtlCaughtThenClears(h, r) ==
    /\ run' = [run EXCEPT ![h] = [r EXCEPT !.failedAt = r.failedAt \cup {1},
                                           !.phase = "clear"]]
    /\ UNCHANGED pc

\* main(): `except Exception` prints the error and main returns normally, so
\* execute_pipeline goes on with the next step.
EtlCaught(h, r) ==
    Advance(h, [r EXCEPT !.failedAt = r.failedAt \cup {1}])

\* load() is left by an exception raised in `where`; its locals are gone, the
\* objects it put under the run prefix are remembered in stagedObjs.
LoadRaised(r, where) ==
    [r EXCEPT !.loadResult = "raised", !.loadRaisedIn = where,
              !.nonEmpty = {}, !.artifacts = <<>>, !.plan = <<>>, !.merged = <<>>]

\* load() returns normally.
LoadReturned(r) ==
    [r EXCEPT !.loadResult = "returned", !.phase = "clear", !.stagedObjs = {},
              !.nonEmpty = {}, !.artifacts = <<>>, !.plan = <<>>, !.merged = <<>>]

\* sales_df, sales_by_product_df = extract(): every file under the two raw
\* folders of the landing bucket is read into the frames.
EtlExtract(h) ==
    /\ pc[h] = "pipeline" /\ run[h].stage = 1 /\ run[h].phase = "extract"
    /\ \E ok \in BOOLEAN :
          IF ok THEN /\ run' = [run EXCEPT ![h].phase = "transform",
                                          ![h].extracted = landing \ {LandingComplete}]
                     /\ UNCHANGED pc /\ NoFault
                ELSE EtlCaught(h, run[h]) /\ Fault
    /\ UNCHANGED <<lock, marker, queue, fired, executions, staging, landing, clock>>
    /\ UNCHANGED <<response, dataVars, fnVars>>

\* combined_df = transform(sales_df, sales_by_product_df)
EtlTransform(h) ==
    /\ pc[h] = "pipeline" /\ run[h].stage = 1 /\ run[h].phase = "transform"
    /\ \E ok \in BOOLEAN :
          IF ok THEN /\ run' = [run EXCEPT ![h].phase = "load"]
                     /\ UNCHANGED pc /\ NoFault
                ELSE EtlCaught(h, run[h]) /\ Fault
    /\ UNCHANGED <<lock, marker, queue, fired, executions, staging, landing, clock>>
    /\ UNCHANGED <<response, dataVars, fnVars>>

RECURSIVE SeqRange(_)
SeqRange(q) == IF q = <<>> THEN {} ELSE {Head(q)} \cup SeqRange(Tail(q))

\* The tables of `names`, in that order, that are in the set S
RECURSIVE Filter(_, _)
Filter(names, S) ==
    IF names = <<>> THEN <<>>
    ELSE IF Head(names) \in S THEN <<Head(names)>> \o Filter(Tail(names), S)
         ELSE Filter(Tail(names), S)

\* plan = [a for name in order for a in artifacts if a["table"] == name]
Plan(artifacts) == Filter(order, SeqRange(artifacts))

\* The `if not <df>.empty:` blocks of load still to run: the non-empty
\* tables not yet put, in the order of the blocks.
ToStage(r) == Filter(AppendOrder, r.nonEmpty \ SeqRange(r.artifacts))

\* The state of load() once every artifact is put: the plan is built and
\* _bulk_upsert_from_staging_etl starts (or, with an empty plan, is over).
Staged(r) ==
    [r EXCEPT !.plan = Plan(r.artifacts),
              !.phase = IF Plan(r.artifacts) = <<>> THEN "delete" ELSE "merge"]

\* load(combined_df) up to the run prefix: the early return on an empty
\* frame, else the dimension tables are built (reads of the store, which can
\* raise) and run_id = time.strftime(...) names the prefix.
LoadEnter(h) ==
    /\ pc[h] = "pipeline" /\ run[h].stage = 1 /\ run[h].phase = "load"
    /\ \/ /\ run' = [run EXCEPT ![h] = LoadReturned(run[h])]
          /\ UNCHANGED <<pc, clock>> /\ NoFault
       \/ /\ EtlCaught(h, LoadRaised(run[h], "build"))
          /\ UNCHANGED clock /\ Fault
       \/ \E S \in SUBSET Tables, t \in clock..MaxClock :
            /\ clock' = t
            /\ LET r == [run[h] EXCEPT !.nonEmpty = S, !.prefix = t,
                                       !.phase = "stage"]
               IN  run' = [run EXCEPT ![h] = IF S = {} THEN Staged(r) ELSE r]
            /\ UNCHANGED pc /\ NoFault
    /\ UNCHANGED <<lock, marker, queue, fired, executions, staging, landing>>
    /\ UNCHANGED <<response, dataVars, fnVars>>

\* _staging_put_bytes_etl(run_prefix + "<table>.csv", ...); artifacts.append
LoadStage(h) ==
    /\ pc[h] = "pipeline" /\ run[h].stage = 1 /\ run[h].phase = "stage"
    /\ LET r == run[h]
           t == Head(ToStage(r))
           o == <<r.prefix, t>>
           put == [r EXCEPT !.artifacts = Append(r.artifacts, t),
                            !.stagedObjs = r.stagedObjs \cup {o}]
       IN  \/ /\ staging' = staging \cup {o}
              /\ run' = [run EXCEPT ![h] =
                           IF Len(ToStage(r)) = 1 THEN Staged(put) ELSE put]
              /\ UNCHANGED pc /\ NoFault
           \/ /\ EtlCaught(h, LoadRaised(r, "stage"))
              /\ UNCHANGED staging /\ Fault
    /\ UNCHANGED <<lock, marker, queue, fired, executions, landing, clock>>
    /\ UNCHANGED <<response, dataVars, fnVars>>

\* Mutant: a failed merge clears the run prefix before it re-raises.
LoadMergeDropsBuffer(h) ==
    /\ pc[h] = "pipeline" /\ run[h].stage = 1 /\ run[h].phase = "merge"
    /\ LET r == run[h]
           t == r.plan[Len(r.merged) + 1]
           done == [r EXCEPT !.merged = Append(r.merged, t)]
       IN  \/ /\ run' = [run EXCEPT ![h] =
                           IF Len(done.merged) = Len(r.plan)
                              THEN [done EXCEPT !.phase = "delete"] ELSE done]
              /\ UNCHANGED <<pc, staging>> /\ NoFault
           \/ /\ staging' = {o \in staging : o[1] # r.prefix}
              /\ EtlCaught(h, LoadRaised(r, "merge")) /\ Fault
    /\ UNCHANGED <<lock, marker, queue, fired, executions, landing, clock>>
    /\ UNCHANGED <<response, dataVars, fnVars>>

\* Mutant: each artifact is removed from the buffer as soon as it is merged.
LoadMergeEagerDelete(h) ==
    /\ pc[h] = "pipeline" /\ run[h].stage = 1 /\ run[h].phase = "merge"
    /\ LET r == run[h]
           t == r.plan[Len(r.merged) + 1]
           done == [r EXCEPT !.merged = Append(r.merged, t)]
       IN  \/ /\ staging' = staging \ {<<r.prefix, t>>}
              /\ run' = [run EXCEPT ![h] =
                           IF Len(done.merged) = Len(r.plan)
                              THEN [done EXCEPT !.phase = "delete"] ELSE done]
              /\ UNCHANGED pc /\ NoFault
           \/ /\ EtlCaught(h, LoadRaised(r, "merge")) /\ Fault
              /\ UNCHANGED staging
    /\ UNCHANGED <<lock, marker, queue, fired, executions, landing, clock>>
    /\ UNCHANGED <<response, dataVars, fnVars>>

\* One step of the loop of _bulk_upsert_from_staging_etl: the artifact is
\* read from staging and merged by _upsert_via_temp_table.
LoadMerge(h) ==
    /\ pc[h] = "pipeline" /\ run[h].stage = 1 /\ run[h].phase = "merge"
    /\ LET r == run[h]
           t == r.plan[Len(r.merged) + 1]
           done == [r EXCEPT !.merged = Append(r.merged, t)]
       IN  \/ /\ run' = [run EXCEPT ![h] =
                           IF Len(done.merged) = Len(r.plan)
                              THEN [done EXCEPT !.phase = "delete"] ELSE done]
              /\ UNCHANGED pc /\ NoFault
           \/ EtlCaught(h, LoadRaised(r, "merge")) /\ Fault
    /\ UNCHANGED <<lock, marker, queue, fired, executions, staging, landing, clock>>
    /\ UNCHANGED <<response, dataVars, fnVars>>

\* The objects list_objects yields, in listing (key) order
ListingOrder == <<"current_product_dimension", "fact_transaction_dimension",
                  "history_product_dimension", "time_dimension",
                  "transaction_records">>

\* The staging objects under `prefix`
UnderPrefix(prefix) == {o \in staging : o[1] = prefix}

\* The first k objects under `prefix` in listing order
FirstListed(prefix, k) ==
    LET names == Filter(ListingOrder, {o[2] : o \in UnderPrefix(prefix)})
    IN  {<<prefix, names[i]>> : i \in 1..k}

\* _staging_delete_prefix_etl(run_prefix): every object under the prefix is
\* removed in turn; a failing call raises with the earlier ones removed.
LoadDelete(h) ==
    /\ pc[h] = "pipeline" /\ run[h].stage = 1 /\ run[h].phase = "delete"
    /\ LET r == run[h]
           n == Cardinality(UnderPrefix(r.prefix))
       IN  \/ /\ staging' = staging \ UnderPrefix(r.prefix)
              /\ run' = [run EXCEPT ![h] = [LoadReturned(r) EXCEPT !.purged = n > 0]]
              /\ UNCHANGED pc /\ NoFault
           \/ \E k \in 0..(n - 1) :
                /\ staging' = staging \ FirstListed(r.prefix, k)
                /\ EtlCaught(h, LoadRaised(r, "delete")) /\ Fault
    /\ UNCHANGED <<lock, marker, queue, fired, executions, landing, clock>>
    /\ UNCHANGED <<response, dataVars, fnVars>>

\* The first k objects of the landing bucket in listing order ("_complete"
\* sorts before the two raw folders)
FirstLanding(k) == {o \in landing : Cardinality({x \in landing : x < o}) < k}

\* Mutant: the landing area is cleared when the last pipeline step is over,
\* not by the ETL step.
ClearLandingLate(h) ==
    /\ pc[h] = "pipeline"
    /\ \/ /\ run[h].stage = 1 /\ run[h].phase = "clear"
          /\ landing' = landing
          /\ Advance(h, run[h])
       \/ /\ run[h].stage = NumStages
          /\ landing' = {}
          /\ Advance(h, [run[h] EXCEPT !.cleared = TRUE,
                                        !.deleted_count = Cardinality(landing)])
    /\ UNCHANGED <<lock, marker, queue, fired, executions, staging, clock, faults>>
    /\ UNCHANGED <<response, dataVars, fnVars>>

\* _clear_landing_bucket_etl(), then main returns.
ClearLanding(h) ==
    /\ pc[h] = "pipeline" /\ run[h].stage = 1 /\ run[h].phase = "clear"
    /\ \/ /\ landing' = {}
          /\ Advance(h, [run[h] EXCEPT !.cleared = TRUE,
                                        !.deleted_count = Cardinality(landing)])
          /\ NoFault
       \/ \E k \in 0..(Cardinality(landing) - 1) :
            /\ landing' = landing \ FirstLanding(k)
            /\ EtlCaught(h, run[h]) /\ Fault
    /\ UNCHANGED <<lock, marker, queue, fired, executions, staging, clock>>
    /\ UNCHANGED <<response, dataVars, fnVars>>

\* ------------------------------------------------------------ specification

Next ==
    \/ TriggerCreated
    \/ \E f \in RawFiles : HandleFileUpload(f)
    \/ \E h \in Threads, ev \in Events : OnCreatedIgnored(h, ev)
    \/ \E h \in Threads : OnCreatedTrigger(h)
    \/ \E h \in Threads : TryAcquire(h)
    \/ \E h \in Threads : DeclinedCleanup(h)
    \/ \E h \in Threads : Settle(h)
    \/ \E h \in Threads : EtlExtract(h)
    \/ \E h \in Threads : EtlTransform(h)
    \/ \E h \in Threads : LoadEnter(h)
    \/ \E h \in Threads : LoadStage(h)
    \/ \E h \in Threads : LoadMerge(h)
    \/ \E h \in Threads : LoadDelete(h)
    \/ \E h \in Threads : ClearLanding(h)
    \/ \E h \in Threads : RunStage(h)
    \/ \E h \in Threads : Release(h)
    \/ \E h \in Threads : RemoveTrigger(h)

Spec == Init /\ [][Next]_vars

\* ------------------------------------------- etl._upsert_via_temp_table

\* The value of the key columns of a row, in the order of key_columns
KeyOf(row, key_columns) ==
    [i \in 1..Len(key_columns) |-> row[key_columns[i]]]

\* update_cols = [c for c in columns if c not in key_columns]
UpdateCols(columns, key_columns) ==
    SelectSeq(columns, LAMBDA c : c \notin SeqRange(key_columns))

\* Mutant: the SET clause names every column but the last update column.
SetClauseDropsLast(old, new, update_cols) ==
    [c \in DOMAIN old |->
        IF c \in SeqRange(SubSeq(update_cols, 1, Len(update_cols) - 1))
           THEN new[c] ELSE old[c]]

\* DO UPDATE SET "c" = EXCLUDED."c" for every c of update_cols: the row
\* `old` of the table after the proposed row `new` hit its key.
SetClause(old, new, update_cols) ==
    [c \in DOMAIN old |-> IF c \in SeqRange(update_cols) THEN new[c] ELSE old[c]]

\* One row r of INSERT INTO table SELECT .. FROM temp [ON CONFLICT (key) DO
\* UPDATE SET .. | DO NOTHING], on the state st = [raised, table, touched] of
\* the command.  `touched` holds the keys the command has inserted or
\* updated: DO UPDATE may not affect a row a second time (the command
\* fails), DO NOTHING skips the row.  Without key columns every row is
\* inserted.
InsertRow(st, r, columns, key_columns) ==
    LET k    == KeyOf(r, key_columns)
        hit  == {t \in BagToSet(st.table) : KeyOf(t, key_columns) = k}
        ucol == UpdateCols(columns, key_columns)
    IN  IF key_columns = <<>>
           THEN [st EXCEPT !.table = st.table (+) SetToBag({r})]
        ELSE IF hit = {}
           THEN [st EXCEPT !.table = st.table (+) SetToBag({r}),
                           !.touched = st.touched \cup {k}]
        ELSE IF ucol = <<>>
           THEN st
        ELSE IF k \in st.touched
           THEN [st EXCEPT !.raised = TRUE]
        ELSE
           LET old == CHOOSE t \in hit : TRUE
           IN  [st EXCEPT !.table = (st.table (-) SetToBag({old}))
                                       (+) SetToBag({SetClause(old, r, ucol)}),
                          !.touched = st.touched \cup {k}]

\* The rows lo..hi of the command in their order, from the state st; the
\* first failing row ends the command.
RECURSIVE InsertSelect(_, _, _, _, _, _)
InsertSelect(st, rows, lo, hi, columns, key_columns) ==
    IF st.raised \/ lo > hi THEN st
    ELSE IF lo = hi THEN InsertRow(st, rows[lo], columns, key_columns)
    ELSE LET mid == (lo + hi) \div 2
         IN  CHOOSE res \in {InsertSelect(left, rows, mid + 1, hi, columns, key_columns) :
                               left \in {InsertSelect(st, rows, lo, mid, columns,
                                                      key_columns)}} : TRUE

\* Mutant: every statement is committed as it is executed.
RollbackKeepsPartial(before, partial) == partial

\* An exception leaves `with conn:` before conn.commit(): the transaction is
\* rolled back and the table holds what it held before the call.
Rollback(before, partial) == before

\* _upsert_via_temp_table(csv_bytes, table_name, columns, key_columns) on a
\* table holding `table`, the CSV holding `rows`: what the table holds
\* afterwards.  A failing statement raises before conn.commit(), so the
\* table is as before.
UpsertViaTempTable(table, rows, columns, key_columns) ==
    CHOOSE out \in
        {IF res.raised THEN [raised |-> TRUE, table |-> Rollback(table, res.table)]
                       ELSE [raised |-> FALSE, table |-> res.table] :
           res \in {InsertSelect([raised |-> FALSE, table |-> table, touched |-> {}],
                                 rows, 1, Len(rows), columns, key_columns)}} : TRUE

\* ------------------------------------------------ frames and their rows

Products == 1..MaxProducts
Prices   == 1..MaxPrice
Dates    == 1..MaxDate
Receipts == 1..MaxReceipts

\* dt.to_period("M") of a date
Month(d) == d \div DaysPerMonth

\* The product name of the rows of a batch
BatchName == "A"

\* A row of combined_df: the columns "Receipt No", "Product ID",
\* "Product Name", "Price" and "Date" under their snake-case names; DateTime
\* orders rows as Date does and every product carries the same name.
LinesOver(dates) == [receipt_no : Receipts, product_id : Products,
                     product_name : {BatchName}, price : Prices, date : dates]
Lines == LinesOver(Dates)

\* The non-empty frames transform() can hand to load()
Frames == UNION {[1..n -> Lines] : n \in 1..MaxLines}

\* The elements of a finite set of integers in ascending order
RECURSIVE SortedSeq(_)
SortedSeq(S) ==
    IF S = {} THEN <<>>
    ELSE LET m == CHOOSE x \in S : \A y \in S : x <= y
         IN  <<m>> \o SortedSeq(S \ {m})

\* Concatenation of a sequence of sequences
RECURSIVE Flatten(_)
Flatten(ss) == IF ss = <<>> THEN <<>> ELSE Head(ss) \o Flatten(Tail(ss))

\* df.drop_duplicates(subset=subset, keep="first"): the rows whose subset
\* value did not occur earlier, in frame order
KeepFirst(rows, subset) ==
    LET ord == SelectSeq([i \in 1..Len(rows) |-> i],
                         LAMBDA i : \A j \in 1..(i - 1) :
                                       KeyOf(rows[j], subset) # KeyOf(rows[i], subset))
    IN  [k \in 1..Len(ord) |-> rows[ord[k]]]

\* df.drop_duplicates(subset=subset, keep="last")
KeepLast(rows, subset) ==
    LET ord == SelectSeq([i \in 1..Len(rows) |-> i],
                         LAMBDA i : \A j \in (i + 1)..Len(rows) :
                                       KeyOf(rows[j], subset) # KeyOf(rows[i], subset))
    IN  [k \in 1..Len(ord) |-> rows[ord[k]]]

\* The product ids of a frame
ProductIds(df) == {df[i].product_id : i \in DOMAIN df}

\* ------------------------------------------ etl.py: the product dimensions

\* pd.NaT / None: no timestamp (the dates are 1, 2, ..)
NaT == 0

\* compute_parent_sku, infer_category and calculate_product_cost are kept as
\* the arguments they were computed from: two values are equal only when they
\* were derived from the same name (id, price).
compute_parent_sku(pname) == <<"sku", pname>>
CategoryOf(pname, pid) == <<"category", pname, pid>>
calculate_product_cost(pname, category, price) == <<"cost", pname, category, price>>

\* A row of current_product_dimension or history_product_dimension whose
\* parent_sku, category and product_cost are given
DimRowWith(pid, pname, price, rv, cur, dt, parent_sku, category, product_cost) ==
    [product_id |-> pid, product_name |-> pname, price |-> price,
     record_version |-> rv, is_current |-> cur, last_transaction_datetime |-> dt,
     parent_sku |-> parent_sku, category |-> category, product_cost |-> product_cost]

\* Such a row with parent_sku, category and product_cost computed from the
\* name, the id and the price
DimRow(pid, pname, price, rv, cur, dt) ==
    DimRowWith(pid, pname, price, rv, cur, dt, compute_parent_sku(pname),
               CategoryOf(pname, pid),
               calculate_product_cost(pname, CategoryOf(pname, pid), price))

\* df.groupby("product_id").last(): the last row of product p in frame order
LastOf(df, p) ==
    df[CHOOSE i \in DOMAIN df :
         /\ df[i].product_id = p
         /\ \A j \in DOMAIN df : df[j].product_id = p => j <= i]

\* create_product_dimensions_full: current_product_dim, one row per product
\* in key order, from the product's last row, with record_version = 1.
CurrentFull(df) ==
    LET ids == SortedSeq(ProductIds(df))
    IN  [k \in 1..Len(ids) |->
            DimRow(ids[k], LastOf(df, ids[k]).product_name,
                   LastOf(df, ids[k]).price, 1, TRUE, LastOf(df, ids[k]).date)]

\* create_product_dimensions_full: history_product_dim, one row per distinct
\* (product_id, product_name, Price) in order of first occurrence;
\* record_version = cumcount within the product + 1, and the product's
\* highest version is flagged is_current.
HistoryFull(df) ==
    LET states == KeepFirst(df, <<"product_id", "product_name", "price">>)
        rv(k) == Cardinality({j \in 1..k :
                                states[j].product_id = states[k].product_id})
        max_version(p) == Cardinality({j \in DOMAIN states :
                                         states[j].product_id = p})
    IN  [k \in 1..Len(states) |->
            DimRow(states[k].product_id, states[k].product_name, states[k].price,
                   rv(k), rv(k) = max_version(states[k].product_id),
                   states[k].date)]

\* batch_latest = df.sort_values("DateTime").groupby("product_id").last():
\* per product a row of the highest DateTime; the sort is not stable, so
\* among rows of equal DateTime any may come last.  A choice maps each
\* product of the frame to the index of its latest row.
LatestChoices(df) ==
    {pick \in [ProductIds(df) -> DOMAIN df] :
        \A p \in ProductIds(df) :
            /\ df[pick[p]].product_id = p
            /\ \A j \in DOMAIN df :
                  df[j].product_id = p => df[j].date <= df[pick[p]].date}

\* Mutant: the superseded version keeps its is_current flag.
OldCurStaysCurrent == TRUE

\* "is_current" of old_cur, the superseded version
OldCurFlag == FALSE

\* Mutant: the new version number is taken past the next free one.
NewVersionSkips(max_rv) == max_rv + 2

\* new_rv = max_rv + 1
NewVersion(max_rv) == max_rv + 1

\* Mutant: the unchanged version takes the name of the new observation.
UnchangedNameFromBatch(cur, pname) == pname

\* "product_name" of updated_hist, the version whose price did not change
UnchangedName(cur, pname) == cur["product_name"]

\* Mutant: the superseded version is stamped with the new observation.
OldCurDatetimeAdvanced(old_datetime, new_datetime) == new_datetime

\* "last_transaction_datetime" of old_cur, the superseded version
OldCurDatetime(old_datetime, new_datetime) == old_datetime

\* One turn of the loop of create_product_dimensions_incremental, for the
\* latest row `row` of product pid and the rows `existing_hist` fetched from
\* history_product_dimension: what it appends to history_rows and to
\* current_rows.
IncrementalRows(pid, row, existing_hist) ==
    LET existing_pid == {t \in existing_hist : t.product_id = pid}
        flagged == {t \in existing_pid : t.is_current}
        cur == IF flagged # {}
                  THEN CHOOSE t \in flagged : TRUE
                  ELSE CHOOSE t \in existing_pid :
                          \A u \in existing_pid : u.record_version <= t.record_version
        max_rv == CHOOSE v \in {t.record_version : t \in existing_pid} :
                     \A t \in existing_pid : t.record_version <= v
        pname == row.product_name
        new_datetime == row.date
    IN  IF existing_pid = {}
           THEN [history_rows |-> <<DimRow(pid, pname, row.price, 1, TRUE, new_datetime)>>,
                 current_rows |-> <<DimRow(pid, pname, row.price, 1, TRUE, new_datetime)>>]
        ELSE IF row.price = cur.price
           THEN LET old_datetime == cur.last_transaction_datetime
                    dt == IF new_datetime # NaT
                             /\ (old_datetime = NaT \/ new_datetime > old_datetime)
                             THEN new_datetime
                             ELSE old_datetime
                    updated_hist ==
                        DimRowWith(cur.product_id, UnchangedName(cur, pname),
                                   cur.price, cur.record_version, TRUE, dt,
                                   cur.parent_sku, cur.category, cur.product_cost)
                IN  [history_rows |-> <<updated_hist>>,
                     current_rows |->
                        <<DimRowWith(pid, pname, cur.price, cur.record_version,
                                     TRUE, dt, cur.parent_sku, cur.category,
                                     cur.product_cost)>>]
        ELSE LET old_cur == DimRowWith(cur.product_id, cur.product_name, cur.price,
                                       cur.record_version, OldCurFlag,
                                       OldCurDatetime(cur.last_transaction_datetime,
                                                      new_datetime),
                                       cur.parent_sku, cur.category,
                                       cur.product_cost)
                 new_hist == DimRow(pid, pname, row.price, NewVersion(max_rv), TRUE,
                                    new_datetime)
             IN  [history_rows |-> <<old_cur, new_hist>>,
                  current_rows |-> <<new_hist>>]

\* create_product_dimensions_incremental(combined_df) with the latest rows
\* chosen by `pick`, against the rows of history_product_dimension:
\* [current, history], the two frames it returns.
DimensionsIncremental(df, pick, history) ==
    LET ids == SortedSeq(ProductIds(df))
        existing_hist == {t \in BagToSet(history) : t.product_id \in ProductIds(df)}
        turn(k) == IncrementalRows(ids[k], df[pick[ids[k]]], existing_hist)
    IN  [current |-> Flatten([k \in 1..Len(ids) |-> turn(k).current_rows]),
         history |-> Flatten([k \in 1..Len(ids) |-> turn(k).history_rows])]

\* create_product_dimensions_full(combined_df)
DimensionsFull(df) == [current |-> CurrentFull(df), history |-> HistoryFull(df)]

\* ------------------------------------------------- etl.load: the data path

\* Mutant: the probe looks at the table's existence only.
HasHistoryIfTableExists(exists, history) == exists

\* loader.has_history_product_dimension(): the table exists and
\* SELECT EXISTS (SELECT 1 FROM history_product_dimension LIMIT 1)
HasHistoryProductDimension(exists, history) ==
    exists /\ BagToSet(history) # {}

\* The columns of the staged frames and their key_columns
DimColumns == <<"product_id", "product_name", "price", "record_version",
                "is_current", "last_transaction_datetime", "parent_sku",
                "category", "product_cost">>
FactColumns == <<"date", "receipt_no", "product_id", "product_name", "price">>
CurrentKey == <<"product_id">>
HistoryKey == <<"product_id", "record_version">>
FactKey    == <<"receipt_no", "date", "product_id">>

\* combined_df["Date"].dt.to_period("M").max()
LatestMonth(df) ==
    CHOOSE m \in {Month(df[i].date) : i \in DOMAIN df} :
        \A i \in DOMAIN df : Month(df[i].date) <= m

\* Mutant: only the rows of the latest day are held back.
FactDfExcludesLatestDay(df) ==
    LET latest == CHOOSE d \in {df[i].date : i \in DOMAIN df} :
                     \A i \in DOMAIN df : df[i].date <= d
    IN  SelectSeq(df, LAMBDA r : r.date # latest)

\* fact_df = combined_df[combined_df["Date"].dt.to_period("M") != latest_month]
FactDf(df) == SelectSeq(df, LAMBDA r : Month(r.date) # LatestMonth(df))

\* The fact frame load() stages: combined_df after drop_duplicates(), without
\* the latest month, deduplicated on the fact key keeping the last row.
FactFrame(df) == KeepLast(FactDf(KeepFirst(df, FactColumns)), FactKey)

\* The frames load() stages for a non-empty combined_df, given the two
\* product frames of the dimension builder: each is deduplicated on its key,
\* keeping the last row.
StagedFrames(df, dims) ==
    [current |-> KeepLast(dims.current, CurrentKey),
     history |-> KeepLast(dims.history, HistoryKey),
     fact    |-> FactFrame(df)]

\* One step of _bulk_upsert_from_staging_etl on a table that exists or not:
\* CREATE TEMP TABLE .. (LIKE table) fails on a missing table.
MergeStep(exists, table, rows, columns, key_columns) ==
    IF ~exists THEN [raised |-> TRUE, table |-> table]
    ELSE UpsertViaTempTable(table, rows, columns, key_columns)

\* load(combined_df) as far as the store goes: the early return on an empty
\* frame; else the mode is chosen, the product frames are built, the
\* non-empty frames are staged and merged in `order` (current, history,
\* fact), each merge committed on its own and the first failure ending the
\* loop (m1, m2, m3: the result of each step of the plan).
Load(df) ==
    /\ runs < MaxRuns
    /\ runs' = runs + 1
    /\ combined_df' = df
    /\ IF df = <<>>
          THEN /\ mode' = "none" /\ outcome' = "returned"
               /\ frames' = NoFrames
               /\ UNCHANGED <<history_product_dimension, current_product_dimension,
                              fact_transaction_dimension>>
          ELSE
            /\ mode' = IF HasHistoryProductDimension(history_exists,
                                                     history_product_dimension)
                          THEN "incremental" ELSE "full"
            /\ \E pick \in LatestChoices(df) :
                 frames' =
                    StagedFrames(df,
                       IF mode' = "incremental"
                          THEN DimensionsIncremental(df, pick, history_product_dimension)
                          ELSE DimensionsFull(df))
            /\ \E m1 \in {IF frames'.current = <<>>
                            THEN [raised |-> FALSE, table |-> current_product_dimension]
                            ELSE MergeStep(TRUE, current_product_dimension,
                                           frames'.current, DimColumns, CurrentKey)} :
               \E m2 \in {IF m1.raised \/ frames'.history = <<>>
                            THEN [raised |-> m1.raised, table |-> history_product_dimension]
                            ELSE MergeStep(history_exists, history_product_dimension,
                                           frames'.history, DimColumns, HistoryKey)} :
               \E m3 \in {IF m2.raised \/ frames'.fact = <<>>
                            THEN [raised |-> m2.raised, table |-> fact_transaction_dimension]
                            ELSE MergeStep(TRUE, fact_transaction_dimension,
                                           frames'.fact, FactColumns, FactKey)} :
                   /\ current_product_dimension' = m1.table
                   /\ history_product_dimension' = m2.table
                   /\ fact_transaction_dimension' = m3.table
                   /\ outcome' = IF m3.raised THEN "raised" ELSE "returned"
    /\ UNCHANGED <<history_exists, pipeVars, fnVars>>

\* Mutant: the tables are joined whether or not both have the key.
TransformJoinsAnyway(with_key, merged) == merged

\* The end of transform(): the inner merge of the two cleaned tables on
\* "Receipt No" when both have that column, pd.DataFrame() otherwise.
\* with_key: the tables that have the column; merged: the rows their join
\* gives.
Transform(with_key, merged) ==
    IF "sales_df" \in with_key /\ "sales_by_product_df" \in with_key
       THEN merged ELSE <<>>

\* The rows two tables give when joined: every frame for tables that have
\* the key, the empty frame and the one-row frames of one day and price
\* otherwise.
Merged(with_key) ==
    IF with_key = BothTables THEN Frames \cup {<<>>}
    ELSE {<<>>} \cup {f \in Frames : Len(f) = 1 /\ f[1].date = 1 /\ f[1].price = 1}

\* main(): combined_df = transform(sales_df, sales_by_product_df);
\* load(combined_df)
TransformLoad(with_key, merged) ==
    /\ has_receipt_no' = with_key
    /\ Load(Transform(with_key, merged))

\* The store as load() can find it before the first run: the history table
\* missing, or present and empty.
LoadInit ==
    /\ PipeIdle /\ FnIdle
    /\ history_exists \in BOOLEAN
    /\ history_product_dimension = EmptyBag
    /\ current_product_dimension = EmptyBag
    /\ fact_transaction_dimension = EmptyBag
    /\ has_receipt_no = BothTables
    /\ combined_df = <<>>
    /\ mode = "none"
    /\ outcome = "none"
    /\ frames = NoFrames
    /\ runs = 0

LoadNext ==
    \E with_key \in SUBSET BothTables :
        \E merged \in Merged(with_key) : TransformLoad(with_key, merged)

\* Runs of load() one after the other, each on a frame of its own
LoadSpec == LoadInit /\ [][LoadNext]_vars

\* ------------------------------------------------ single calls of helpers

\* A table of three columns for a call of _upsert_via_temp_table
UpsertColumns == <<"id", "ver", "val">>
UpsertRows == [id : 1..MaxVal, ver : 1..MaxVal, val : 1..MaxVal]

\* key_columns: none, a proper part of the columns, or all of them
KeyChoices == {<<>>, <<"id">>, <<"id", "ver">>, <<"id", "ver", "val">>}

\* No two of the rows agree on the key columns
KeysDistinct(rows, key_columns) ==
    \A i, j \in DOMAIN rows :
        KeyOf(rows[i], key_columns) = KeyOf(rows[j], key_columns) => i = j

\* The contents a table with a unique index on key_columns can have (any
\* rows if there is no key): at most MaxRows rows
TablesFor(key_columns) ==
    {SetToBag(S) : S \in {S \in SUBSET UpsertRows :
        /\ Cardinality(S) <= MaxRows
        /\ key_columns # <<>> =>
              \A t, u \in S : KeyOf(t, key_columns) = KeyOf(u, key_columns) => t = u}}

\* The CSV of a call: up to MaxRows rows, in file order
CsvRows == UNION {[1..n -> UpsertRows] : n \in 0..MaxRows}

\* The calls of _upsert_via_temp_table
UpsertCalls ==
    UNION {[fn : {"_upsert_via_temp_table"}, table : TablesFor(k),
            rows : CsvRows, columns : {UpsertColumns}, key_columns : {k}]
             : k \in KeyChoices}

\* _upsert_via_temp_table is called and returns or raises.
CallUpsert ==
    /\ call.fn = "_upsert_via_temp_table" /\ ret.fn = "none"
    /\ ret' = [fn |-> call.fn] @@
              UpsertViaTempTable(call.table, call.rows, call.columns,
                                 call.key_columns)
    /\ UNCHANGED <<call, pipeVars, dataVars>>

\* The frames the month filter of load() is called on
FactFrames == UNION {[1..n -> LinesOver(1..MaxFactDate)] : n \in 1..MaxFactLines}

FactCalls == [fn : {"fact_df"}, df : FactFrames]

\* The part of load() that builds the fact frame from combined_df.
CallFactFrame ==
    /\ call.fn = "fact_df" /\ ret.fn = "none"
    /\ ret' = [fn |-> call.fn, fact |-> FactFrame(call.df)]
    /\ UNCHANGED <<call, pipeVars, dataVars>>

\* ---- _bulk_upsert_from_staging_etl ----

\* One step of the plan on its table; copy_fails: COPY into the temporary
\* table raises (nothing of the permanent table was touched yet).
BulkStep(table, step, copy_fails) ==
    IF copy_fails THEN [raised |-> TRUE, table |-> Rollback(table, table)]
    ELSE UpsertViaTempTable(table, step.rows, step.columns, step.key_columns)

\* The loop over a plan of two steps, each on a table of its own: the first
\* exception leaves the loop.  failed is the step that raised, 0 if none.
BulkUpsertFromStaging(tables, plan, copy_fails_at) ==
    CHOOSE out \in
        {IF m1.raised
            THEN [failed |-> 1, tables |-> <<m1.table, tables[2]>>]
            ELSE CHOOSE o \in
                   {[failed |-> IF m2.raised THEN 2 ELSE 0,
                     tables |-> <<m1.table, m2.table>>] :
                      m2 \in {BulkStep(tables[2], plan[2], copy_fails_at = 2)}} : TRUE
           : m1 \in {BulkStep(tables[1], plan[1], copy_fails_at = 1)}} : TRUE

\* The plans checked: a first step of one row into an empty table, a second
\* step of any CSV into any table keyed by id; COPY fails in no step, in
\* the first or in the second.
BulkCalls ==
    [fn : {"_bulk_upsert_from_staging_etl"},
     first : [1..1 -> UpsertRows],
     table : TablesFor(<<"id">>),
     second : CsvRows,
     copy_fails_at : 0..2]

CallBulkUpsert ==
    /\ call.fn = "_bulk_upsert_from_staging_etl" /\ ret.fn = "none"
    /\ ret' = [fn |-> call.fn] @@
              BulkUpsertFromStaging(
                  <<EmptyBag, call.table>>,
                  <<[rows |-> call.first, columns |-> UpsertColumns,
                     key_columns |-> <<"id">>],
                    [rows |-> call.second, columns |-> UpsertColumns,
                     key_columns |-> <<"id">>]>>,
                  call.copy_fails_at)
    /\ UNCHANGED <<call, pipeVars, dataVars>>

\* ---- transform(): de-duplication of the sales transactions list ----

SalesKey == <<"Date", "ReceiptNo", "Time">>

\* A row of sales_df: the three key columns and one other column
SalesRows == [Date : 1..MaxSalesVal, ReceiptNo : 1..MaxSalesVal,
              Time : 1..MaxSalesVal, Total : 1..MaxSalesVal]

SalesFrames == UNION {[1..n -> SalesRows] : n \in 0..MaxSalesRows}

\* Mutant: keep="last"
DedupeKeepsLast(sales_df, has_key_columns) ==
    IF has_key_columns THEN KeepLast(sales_df, SalesKey) ELSE sales_df

\* "De-dupe sales_df": drop_duplicates(subset=["Date", "Receipt No", "Time"],
\* keep="first") when the frame has the three columns, the frame as it is
\* otherwise.
DedupeSales(sales_df, has_key_columns) ==
    IF has_key_columns THEN KeepFirst(sales_df, SalesKey) ELSE sales_df

DedupeCalls == [fn : {"dedupe"}, sales_df : SalesFrames, has_key_columns : BOOLEAN]

\* transform() on the extracted sales frame, up to the de-duplication
CallDedupe ==
    /\ call.fn = "dedupe" /\ ret.fn = "none"
    /\ ret' = [fn |-> call.fn, times |-> 1,
               sales_df |-> DedupeSales(call.sales_df, call.has_key_columns)]
    /\ UNCHANGED <<call, pipeVars, dataVars>>

\* Extract and transform once more over the same input
CallDedupeAgain ==
    /\ call.fn = "dedupe" /\ ret.fn = "dedupe" /\ ret.times = 1
    /\ ret' = [fn |-> call.fn, times |-> 2, first |-> ret.sales_df,
               sales_df |-> DedupeSales(call.sales_df, call.has_key_columns)]
    /\ UNCHANGED <<call, pipeVars, dataVars>>

\* ---- infer_category ----
\* A product name is a sequence of words, joined by single blanks; a word is
\* a run of letters and digits, already upper-cased.

NameWords == {"CHARGING", "RECHARGING", "TAKE", "TAKEN", "BOTTLED", "WATER",
              "PLAIN", "RICE", "EGG", "DIJON", "EXTRA", "TEA", "CHICKEN"}

ProductNames == UNION {[1..n -> NameWords] : n \in 0..MaxWords}

\* A product id column value; NaN is a value that is not a string
NaN == "<NaN>"
ProductIdValues == {"FDS-1", "DRNKS-1", "dks-2", "DKS-3", NaN}

\* trig in word, for the words and triggers of the vocabulary
Within(trig, word) ==
    \/ trig = word
    \/ trig = "CHARGING" /\ word = "RECHARGING"
    \/ trig = "TAKE" /\ word = "TAKEN"

\* trig in upper_name, trig a single word
InName(trig, upper_name) == \E i \in DOMAIN upper_name : Within(trig, upper_name[i])

\* re.compile(r"\bWORD\b").search(upper_name)
WordInName(word, upper_name) == \E i \in DOMAIN upper_name : upper_name[i] = word

\* phrase in upper_name, phrase two words joined by a blank
PhraseInName(phrase, upper_name) ==
    \E i \in DOMAIN upper_name :
        /\ i + 1 \in DOMAIN upper_name
        /\ upper_name[i] = phrase[1] /\ upper_name[i + 1] = phrase[2]

\* sub in product_id.upper()
InUpperId(sub, product_id) ==
    \/ sub = "DRNKS" /\ product_id = "DRNKS-1"
    \/ sub = "DKS" /\ product_id \in {"dks-2", "DKS-3"}

drink_keywords == {"ICED", "ICE", "HOT", "8OZ", "12OZ", "16OZ", "COLD", "TEA",
                   "LATTE", "SHAKE", "FRAPPE", "MOCHA", "GLASS", "PITCHER", "WATER"}
others_triggers == {"CHARGING"}
others_word_regex == "TAKE"
extra_phrase_triggers == {<<"BOTTLED", "WATER">>, <<"PLAIN", "RICE">>}
extra_word_triggers == {"EGG", "DIJON", "EXTRA"}

OthersMatch(upper_name) ==
    \/ \E trig \in others_triggers : InName(trig, upper_name)
    \/ WordInName(others_word_regex, upper_name)

ExtraMatch(upper_name) ==
    \/ \E phrase \in extra_phrase_triggers : PhraseInName(phrase, upper_name)
    \/ \E rgx \in extra_word_triggers : WordInName(rgx, upper_name)

DrinkToken(upper_name) ==
    {upper_name[i] : i \in DOMAIN upper_name} \cap drink_keywords # {}

DrinkId(product_id) ==
    /\ product_id # NaN
    /\ InUpperId("DRNKS", product_id) \/ InUpperId("DKS", product_id)

infer_category(product_name, product_id) ==
    IF OthersMatch(product_name) THEN "OTHERS"
    ELSE IF ExtraMatch(product_name) THEN "EXTRA"
    ELSE LET category == IF DrinkToken(product_name) THEN "DRINK" ELSE "FOOD"
         IN  IF DrinkId(product_id) THEN "DRINK" ELSE category

CategoryCalls == [fn : {"infer_category"}, product_name : ProductNames,
                  product_id : ProductIdValues]

CallInferCategory ==
    /\ call.fn = "infer_category" /\ ret.fn = "none"
    /\ ret' = [fn |-> call.fn,
               category |-> infer_category(call.product_name, call.product_id)]
    /\ UNCHANGED <<call, pipeVars, dataVars>>

\* ---- create_time_dimension and its merge ----

HoursOfDay == 24      \* range(0, 24)
MinutesOfHour == 60   \* range(0, 60)

\* f"{n:02}": the decimal digits of n, at least two of them
Digits == <<"0", "1", "2", "3", "4", "5", "6", "7", "8", "9">>
RECURSIVE Decimal(_)
Decimal(n) == IF n < 10 THEN <<Digits[n + 1]>>
              ELSE Decimal(n \div 10) \o <<Digits[(n % 10) + 1]>>
Format02(n) == IF n < 10 THEN <<"0">> \o Decimal(n) ELSE Decimal(n)

TimeColumns == <<"time_id", "time_desc", "time_level", "parent_id">>
TimeKey == <<"time_id">>

\* Mutant: the minute rows are numbered by their minute only.
MinuteIdWithoutHour(h, m) == <<"H">> \o Format02(0) \o <<"M">> \o Format02(m)

\* f"H{h:02}M{m:02}"
MinuteId(h, m) == <<"H">> \o Format02(h) \o <<"M">> \o Format02(m)

\* create_time_dimension: hour_rows + minute_rows
CreateTimeDimension ==
    [i \in 1..HoursOfDay |->
        [time_id |-> <<"H">> \o Format02(i - 1), time_desc |-> Format02(i - 1),
         time_level |-> 1, parent_id |-> <<"N", "A">>]]
    \o
    [i \in 1..(HoursOfDay * MinutesOfHour) |->
        LET h == (i - 1) \div MinutesOfHour
            m == (i - 1) % MinutesOfHour
        IN  [time_id |-> MinuteId(h, m),
             time_desc |-> Format02(h) \o <<":">> \o Format02(m),
             time_level |-> 0, parent_id |-> <<"H">> \o Format02(h)]]

\* What time_dimension can hold before a run: a row of an earlier layout
\* under one of the ids
StaleTimeRow == [time_id |-> <<"H", "0", "0">>, time_desc |-> <<"0">>,
                 time_level |-> 1, parent_id |-> <<"N", "A">>]
TimeCalls == [fn : {"time_dimension"}, table : {SetToBag({StaleTimeRow})}]

\* load(): the time frame is built, deduplicated on time_id and merged
MergeTimeDimension(table) ==
    MergeStep(TRUE, table, KeepLast(CreateTimeDimension, TimeKey),
              TimeColumns, TimeKey)

CallTimeDimension ==
    /\ call.fn = "time_dimension" /\ ret.fn = "none"
    /\ \E m \in {MergeTimeDimension(call.table)} :
          ret' = [fn |-> call.fn, times |-> 1, time_dim |-> CreateTimeDimension,
                  raised |-> m.raised, table |-> m.table]
    /\ UNCHANGED <<call, pipeVars, dataVars>>

\* The next run merges the regenerated frame into the same table
CallTimeDimensionAgain ==
    /\ call.fn = "time_dimension" /\ ret.fn = "time_dimension" /\ ret.times = 1
    /\ \E m \in {MergeTimeDimension(ret.table)} :
          ret' = [fn |-> call.fn, times |-> 2, time_dim |-> CreateTimeDimension,
                  raised |-> m.raised, table |-> m.table, first |-> ret.table]
    /\ UNCHANGED <<call, pipeVars, dataVars>>

\* ---- one product of an incremental run ----

\* The latest row of the product in the batch: any name, price and DateTime,
\* NaT included
TurnRows == [receipt_no : {1}, product_id : {1}, product_name : {"A", "B"},
             price : Prices, date : Dates \cup {NaT}]

\* The versions 1..n a product has in history_product_dimension, the last of
\* them current, each with the derived columns of its own name and price
VersionStates == [product_name : {"A", "B"}, price : Prices,
                  last_transaction_datetime : Dates \cup {NaT}]

HistoriesOf(pid) ==
    {{DimRow(pid, h[v].product_name, h[v].price, v, v = n,
             h[v].last_transaction_datetime) : v \in 1..n} :
        n \in 0..MaxVersions, h \in [1..MaxVersions -> VersionStates]}

\* A row of another product in the table
OtherProduct == DimRow(2, "B", 1, 1, TRUE, 1)

TurnCalls == [fn : {"incremental"}, row : TurnRows,
              history : {SetToBag(H \cup {OtherProduct}) : H \in HistoriesOf(1)}]

\* create_product_dimensions_incremental on a batch whose latest row of the
\* product is call.row, then the merge of the history frame by load().
CallIncremental ==
    /\ call.fn = "incremental" /\ ret.fn = "none"
    /\ LET dims == DimensionsIncremental(<<call.row>>, [p \in {1} |-> 1],
                                         call.history)
           merged == MergeStep(TRUE, call.history,
                               KeepLast(dims.history, HistoryKey),
                               DimColumns, HistoryKey)
       IN  ret' = [fn |-> call.fn, current |-> dims.current,
                   history_rows |-> dims.history, raised |-> merged.raised,
                   history |-> merged.table]
    /\ UNCHANGED <<call, pipeVars, dataVars>>

\* The calls checked one by one
Calls == UpsertCalls \cup FactCalls \cup DedupeCalls \cup CategoryCalls
            \cup TurnCalls \cup TimeCalls \cup BulkCalls

FnInit ==
    /\ PipeIdle /\ DataIdle
    /\ call \in Calls
    /\ ret = [fn |-> "none"]

FnNext ==
    \/ CallUpsert
    \/ CallFactFrame
    \/ CallDedupe
    \/ CallDedupeAgain
    \/ CallInferCategory
    \/ CallIncremental
    \/ CallTimeDimension
    \/ CallTimeDimensionAgain
    \/ CallBulkUpsert

\* One call of a helper on arguments of its domain
FnSpec == FnInit /\ [][FnNext]_vars

\* ------------------------------------------------------------------ claims

\* on_created is between a successful acquire and its release
InRun(h) == pc[h] \in {"settle", "pipeline", "release"}

\* Thread h leaves on_created in this step, having run the pipeline
Returns(h) == pc[h] = "remove" /\ pc'[h] # "remove"

\* C1: at most one call of execute_pipeline is in progress at any time; a
\* handler is inside its run only while it holds pipeline_lock, so no second
\* handler enters before the first has released the lock.
C1_SingleFlight ==
    /\ \A h \in Threads : InRun(h) => lock = h
    /\ Cardinality({h \in Threads : pc[h] = "pipeline"}) <= 1

\* C1 witness: a run is in progress while another handler has detected a
\* trigger and is about to try the lock.
C1_Contention ==
    \E h, g \in Threads : pc[h] = "pipeline" /\ pc[g] = "detected"

C4_FailedRunDoesNotBlock ==
    \A h \in Threads :
        (run[h].result \in {"Exception", "SystemExit"} /\ pc[h] \notin {"release", "remove"})
            => (pc[h] = "idle" /\ lock # h)

\* C5: after a stage of a run raised, no later stage of that run is started.
C5_FailureAbortsRun ==
    \A h \in Threads : \A s \in run[h].failedAt :
        \A i \in 1..Len(run[h].started) : run[h].started[i] <= s

C7_BufferClearedOnlyOnSuccess ==
    [][\A h \in Threads :
         (pc[h] = "pipeline" /\ run[h].phase \in {"stage", "merge", "delete"})
            => /\ (\E o \in staging \ staging' : o[1] = run[h].prefix)
                     => (run[h].phase = "delete" /\ run[h].merged = run[h].plan)
               /\ run'[h].loadResult = "returned"
                     => {o \in staging' : o[1] = run[h].prefix} = {}]_vars

\* C7 witness: load has returned after merging and deleting its artifacts,
\* and nothing is left under its prefix.
C7_PrefixEmptied ==
    \E h \in Threads :
        /\ run[h].loadResult = "returned" /\ run[h].purged
        /\ UnderPrefix(run[h].prefix) = {}

\* The merge order the claim states
C8_Order == <<"time_dimension", "current_product_dimension",
              "history_product_dimension", "transaction_records",
              "fact_transaction_dimension">>

\* C8: every non-empty artifact is staged before the first merge, and the
\* tables merged so far are an initial part of the claim's order restricted
\* to the non-empty artifacts, whichever subset is non-empty.
C8_StagedThenMergedInOrder ==
    \A h \in Threads :
        /\ run[h].merged # <<>> => run[h].phase \in {"merge", "delete"}
        /\ run[h].phase \in {"merge", "delete"}
              => /\ SeqRange(run[h].artifacts) = run[h].nonEmpty
                 /\ \A t \in run[h].nonEmpty : <<run[h].prefix, t>> \in staging
                 /\ Len(run[h].merged) <= Cardinality(run[h].nonEmpty)
                 /\ run[h].merged =
                      SubSeq(Filter(C8_Order, run[h].nonEmpty), 1, Len(run[h].merged))

\* C8 witness: a proper subset of the artifacts is non-empty and both the
\* bridge and the fact table have been merged.
C8_SubsetMerged ==
    \E h \in Threads :
        /\ run[h].nonEmpty # Tables
        /\ Len(run[h].merged) >= 2
        /\ run[h].merged[Len(run[h].merged)] = "fact_transaction_dimension"

C10_LandingKeptUnlessLoaded ==
    [][~(landing \subseteq landing')
         => \E h \in Threads : /\ pc[h] = "pipeline" /\ run[h].stage = 1
                               /\ run[h].loadResult = "returned"
                               /\ run[h].failedAt = {}]_vars

\* C10 witness: a run merged and purged its artifacts, and then removed the
\* raw file and the completion marker from the landing bucket.
C10_ClearedAfterLoad ==
    \E h \in Threads :
        /\ run[h].purged /\ run[h].loadResult = "returned"
        /\ run[h].cleared /\ run[h].deleted_count = 2

\* ------------------------------------------ claims on the product dimensions

\* The rows of history_product_dimension for product p
VersionsOf(p) == {t \in BagToSet(history_product_dimension) : t.product_id = p}

\* The products that have a row in history_product_dimension
HistoryProducts == {t.product_id : t \in BagToSet(history_product_dimension)}

\* C11: whatever runs of load() have taken place (a full rebuild, then
\* incremental runs), every product_id of history_product_dimension has
\* exactly one row with is_current = true.
C11_OneCurrentVersion ==
    \A p \in HistoryProducts :
        Cardinality({t \in VersionsOf(p) : t.is_current}) = 1

\* C11 witness: after an incremental run a product has three versions, the
\* earlier two superseded.
C11_Superseded ==
    /\ mode = "incremental" /\ outcome = "returned"
    /\ \E p \in HistoryProducts :
          /\ Cardinality(VersionsOf(p)) = 3
          /\ Cardinality({t \in VersionsOf(p) : ~t.is_current}) = 2

\* C12: whatever runs of load() have taken place, the record_version values
\* stored for a product are exactly 1..n, n >= 1 the number of its rows: no
\* gap, no duplicate.
C12_GaplessVersions ==
    /\ \A t \in BagToSet(history_product_dimension) :
          CopiesIn(t, history_product_dimension) = 1
    /\ \A p \in HistoryProducts :
          /\ {t.record_version : t \in VersionsOf(p)} = 1..Cardinality(VersionsOf(p))
          /\ Cardinality(VersionsOf(p)) >= 1

\* C12 witness: a full rebuild gave a product two versions and each of two
\* incremental runs added one.
C12_FourVersions ==
    /\ runs = 3 /\ mode = "incremental" /\ outcome = "returned"
    /\ \E p \in HistoryProducts : Cardinality(VersionsOf(p)) = 4

\* The row of product p flagged is_current in history_product_dimension
CurrentVersion(p) == CHOOSE t \in VersionsOf(p) : t.is_current

\* This step is a run of load() on a non-empty frame that returned.
CompletedRun ==
    /\ runs' = runs + 1 /\ combined_df' # <<>> /\ outcome' = "returned"

\* C13: in a completed run, a product that has a current version gets a new
\* history row if and only if an observation of the batch carries a price
\* that differs from the price of that current version; with equal prices
\* its number of history rows does not increase.
C13_NewVersionIffPriceDiffers ==
    [][CompletedRun =>
         \A p \in HistoryProducts \cap ProductIds(combined_df') :
            (\E i \in DOMAIN combined_df' :
                /\ combined_df'[i].product_id = p
                /\ combined_df'[i].price # CurrentVersion(p).price)
            <=> (Cardinality(VersionsOf(p)') > Cardinality(VersionsOf(p)))]_vars

\* C14: after a completed run every product of the history has one row in
\* current_product_dimension, and that row carries the record_version and the
\* price of the product's history row flagged is_current.
C14_CurrentIsProjection ==
    (runs > 0 /\ outcome = "returned") =>
        \A p \in HistoryProducts :
            LET rows == {c \in BagToSet(current_product_dimension) : c.product_id = p}
            IN  /\ Cardinality(rows) = 1
                /\ \A c \in rows :
                      /\ c.record_version = CurrentVersion(p).record_version
                      /\ c.price = CurrentVersion(p).price

\* C15: a run of load() on a non-empty frame builds the product dimensions
\* incrementally exactly when, as the run starts, the table
\* history_product_dimension exists and holds at least one row; with the
\* table missing or empty it runs the full rebuild.
C15_ModeSelection ==
    [][(runs' = runs + 1 /\ combined_df' # <<>>) =>
         /\ mode' \in {"incremental", "full"}
         /\ mode' = "incremental"
               <=> (history_exists /\ history_product_dimension # EmptyBag)]_vars

\* C15 witness: a full rebuild populated the empty table and the run after it
\* was incremental.
C15_IncrementalAfterFull ==
    /\ runs = 2 /\ mode = "incremental" /\ outcome = "returned"
    /\ history_exists /\ history_product_dimension # EmptyBag

\* ---------------------------------------------------- claims on the helpers

\* The number of rows of the CSV equal to row
Occurrences(rows, row) == Cardinality({i \in DOMAIN rows : rows[i] = row})

\* C16: a merge is an upsert on the key columns.  With key columns, and the
\* CSV rows distinct on them (as load() stages them), the call does not raise
\* and afterwards every CSV row is in the table as the only row of its key
\* (inserted, or every non-key column overwritten), every row of the table
\* whose key is not in the CSV is as before and nothing else is in the
\* table.  Without key columns every CSV row is added as a row of its own.
C16_MergeIsUpsert ==
    ret.fn = "_upsert_via_temp_table" =>
        LET T == call.table
            A == call.rows
            K == call.key_columns
            keys == {KeyOf(A[i], K) : i \in DOMAIN A}
        IN  IF K = <<>>
               THEN /\ ~ret.raised
                    /\ \A r \in UpsertRows :
                          CopiesIn(r, ret.table) = CopiesIn(r, T) + Occurrences(A, r)
               ELSE KeysDistinct(A, K) =>
                    /\ ~ret.raised
                    /\ \A i \in DOMAIN A :
                          /\ CopiesIn(A[i], ret.table) = 1
                          /\ \A t \in BagToSet(ret.table) :
                                KeyOf(t, K) = KeyOf(A[i], K) => t = A[i]
                    /\ \A t \in BagToSet(T) :
                          KeyOf(t, K) \notin keys => CopiesIn(t, ret.table) = 1
                    /\ \A t \in BagToSet(ret.table) :
                          t \in BagToSet(T) \/ \E i \in DOMAIN A : t = A[i]

\* C16 witness: with key (id, ver), one CSV row overwrote the other column
\* of an existing row, one was inserted, and a second row of the table was
\* left as it was.
C16_UpdatedInsertedKept ==
    /\ ret.fn = "_upsert_via_temp_table" /\ ~ret.raised
    /\ call.key_columns = <<"id", "ver">>
    /\ LET K == call.key_columns
       IN  /\ \E i, j \in DOMAIN call.rows :
                 /\ \E t \in BagToSet(call.table) :
                       KeyOf(t, K) = KeyOf(call.rows[i], K) /\ t # call.rows[i]
                 /\ \A t \in BagToSet(call.table) :
                       KeyOf(t, K) # KeyOf(call.rows[j], K)
           /\ \E t \in BagToSet(call.table) :
                 /\ \A i \in DOMAIN call.rows : KeyOf(call.rows[i], K) # KeyOf(t, K)
                 /\ t \in BagToSet(ret.table)

\* C17: the fact frame of a run holds exactly the transaction lines of the
\* batch whose calendar month differs from the month of the latest date of
\* the batch, one row per fact key (receipt_no, date, product_id): every row
\* is such a line, every such line has its key in the frame, and no row is
\* of the latest month.
C17_LatestMonthExcluded ==
    ret.fn = "fact_df" =>
        LET df == call.df
            latest == CHOOSE i \in DOMAIN df : \A j \in DOMAIN df : df[j].date <= df[i].date
            older == {df[i] : i \in {i \in DOMAIN df :
                                       Month(df[i].date) # Month(df[latest].date)}}
            fact == {ret.fact[k] : k \in DOMAIN ret.fact}
        IN  /\ fact \subseteq older
            /\ {KeyOf(r, FactKey) : r \in fact} = {KeyOf(r, FactKey) : r \in older}
            /\ KeysDistinct(ret.fact, FactKey)

\* C17 witness: the batch has a line of an earlier month and two lines on
\* different days of its latest month; only the first is in the fact frame.
C17_PartialMonthHeldBack ==
    /\ ret.fn = "fact_df" /\ Len(ret.fact) = 1 /\ Len(call.df) = 3
    /\ \E i, j \in DOMAIN call.df :
          /\ call.df[i].date # call.df[j].date
          /\ Month(call.df[i].date) = Month(call.df[j].date)
          /\ Month(ret.fact[1].date) < Month(call.df[i].date)

\* C18: the sales frame is de-duplicated on (Date, Receipt No, Time) keeping
\* the first occurrence: the result is the rows of the input of which no
\* earlier row has the same key, in the order of the input, so that every
\* key of the input is in it exactly once.  De-duplicating the result again
\* changes nothing, and a second run over the same input yields the same
\* rows.
C18_DedupKeepsFirst ==
    (ret.fn = "dedupe" /\ call.has_key_columns) =>
        LET A == call.sales_df
            R == ret.sales_df
            firsts == {i \in DOMAIN A :
                         \A j \in DOMAIN A :
                            KeyOf(A[j], SalesKey) = KeyOf(A[i], SalesKey) => i <= j}
        IN  /\ Len(R) = Cardinality(firsts)
            /\ \E f \in [DOMAIN R -> firsts] :
                  /\ \A k \in DOMAIN R : R[k] = A[f[k]]
                  /\ \A k, l \in DOMAIN R : k < l => f[k] < f[l]
            /\ KeysDistinct(R, SalesKey)
            /\ DedupeSales(R, call.has_key_columns) = R
            /\ ret.times = 2 => ret.first = R

\* C18 witness: two rows of the same key and different totals, and a row of
\* another key; the run and its repetition kept the earlier of the two.
C18_LaterDuplicateDropped ==
    /\ ret.fn = "dedupe" /\ call.has_key_columns /\ ret.times = 2
    /\ Len(call.sales_df) = 3 /\ Len(ret.sales_df) = 2
    /\ \E i, j \in DOMAIN call.sales_df :
          /\ i < j
          /\ KeyOf(call.sales_df[i], SalesKey) = KeyOf(call.sales_df[j], SalesKey)
          /\ call.sales_df[i].Total # call.sales_df[j].Total
          /\ \E k \in DOMAIN ret.sales_df : ret.sales_df[k] = call.sales_df[i]

\* The category the name alone gives: OTHERS, else EXTRA, else DRINK, else FOOD
NameBased(product_name) ==
    IF OthersMatch(product_name) THEN "OTHERS"
    ELSE IF ExtraMatch(product_name) THEN "EXTRA"
    ELSE IF DrinkToken(product_name) THEN "DRINK" ELSE "FOOD"

\* C19: infer_category returns DRINK whenever the product id contains DRNKS
\* or DKS, whatever the name, and otherwise the category the name gives by
\* the priority OTHERS, EXTRA, DRINK, FOOD.
C19_IdOverridesName ==
    ret.fn = "infer_category" =>
        ret.category = IF DrinkId(call.product_id) THEN "DRINK"
                       ELSE NameBased(call.product_name)

\* C19: a product with a drink id whose name matches an others-trigger or an
\* extra-trigger has been categorised.
C19_DrinkIdWithTrigger ==
    /\ ret.fn = "infer_category" /\ DrinkId(call.product_id)
    /\ OthersMatch(call.product_name) \/ ExtraMatch(call.product_name)

TurnHistory(table) == {t \in BagToSet(table) : t.product_id = 1}
TurnCurrent == CHOOSE t \in TurnHistory(call.history) : t.is_current

\* C21: incremental mode, the product has history and the price of its
\* latest row equals the price of its current version.  The merge does not
\* raise, the product has the same versions as before and its current
\* version is the same one, with the same price, product_name, parent_sku,
\* category and product_cost; its last_transaction_datetime is the new
\* timestamp when that is a timestamp and the stored one is missing or
\* earlier, and the stored one otherwise; every other row of the table is as
\* before, and the current frame carries the same record_version.
C21_UnchangedPriceKeepsVersion ==
    (/\ ret.fn = "incremental"
     /\ TurnHistory(call.history) # {}
     /\ call.row.price = TurnCurrent.price) =>
        LET cur == TurnCurrent
            new_dt == call.row.date
            old_dt == cur.last_transaction_datetime
            kept == [cur EXCEPT !.last_transaction_datetime =
                        IF new_dt # NaT /\ (old_dt = NaT \/ new_dt > old_dt)
                           THEN new_dt ELSE old_dt]
        IN  /\ ~ret.raised
            /\ ret.history = (call.history (-) SetToBag({cur})) (+) SetToBag({kept})
            /\ Len(ret.history_rows) = 1
            /\ Len(ret.current) = 1
            /\ ret.current[1].record_version = cur.record_version

\* C21 witness: the price is unchanged, the batch brings a later timestamp
\* and another product name; the timestamp of the current version advanced
\* and its name stayed.
C21_LaterTimestampOtherName ==
    /\ ret.fn = "incremental"
    /\ TurnHistory(call.history) # {}
    /\ call.row.price = TurnCurrent.price
    /\ call.row.product_name # TurnCurrent.product_name
    /\ TurnCurrent.last_transaction_datetime # NaT
    /\ call.row.date > TurnCurrent.last_transaction_datetime
    /\ \E t \in TurnHistory(ret.history) :
          /\ t.is_current
          /\ t.last_transaction_datetime = call.row.date
          /\ t.product_name = TurnCurrent.product_name

\* C22: incremental mode, the product has history and the price of its
\* latest row differs from the price of its current version.  The merge does
\* not raise; afterwards the table is the table before, with the prior
\* current version changed in is_current only (now false) and one row more:
\* the new version, numbered one past the highest version of the product,
\* current, with the new price, name and timestamp.
C22_ChangedPriceAppendsVersion ==
    (/\ ret.fn = "incremental"
     /\ TurnHistory(call.history) # {}
     /\ call.row.price # TurnCurrent.price) =>
        LET cur == TurnCurrent
            max_rv == CHOOSE v \in {t.record_version : t \in TurnHistory(call.history)} :
                         \A t \in TurnHistory(call.history) : t.record_version <= v
            superseded == [cur EXCEPT !.is_current = FALSE]
            added == BagToSet(ret.history) \ (BagToSet(call.history) \cup {superseded})
        IN  /\ ~ret.raised
            /\ Cardinality(added) = 1
            /\ \A t \in added :
                  /\ t.product_id = 1 /\ t.record_version = max_rv + 1 /\ t.is_current
                  /\ t.price = call.row.price
                  /\ t.product_name = call.row.product_name
                  /\ t.last_transaction_datetime = call.row.date
                  /\ ret.history = ((call.history (-) SetToBag({cur}))
                                      (+) SetToBag({superseded})) (+) SetToBag({t})

\* C22 witness: a product of two versions got a third one at a new price
\* and an earlier timestamp than its second, which is no longer current.
C22_ThirdVersion ==
    /\ ret.fn = "incremental"
    /\ Cardinality(TurnHistory(call.history)) = 2
    /\ Cardinality(TurnHistory(ret.history)) = 3
    /\ call.row.date # NaT
    /\ call.row.date < TurnCurrent.last_transaction_datetime
    /\ \E t \in TurnHistory(ret.history) :
          t.record_version = 2 /\ ~t.is_current /\ t.price # call.row.price

\* C23: a run of transform and load in which sales_df or sales_by_product_df
\* lacks the column "Receipt No" hands load an empty frame; load returns
\* without raising, stages no frame and leaves the three tables as they were.
C23_MissingJoinKey ==
    [][(runs' = runs + 1 /\ has_receipt_no' # BothTables) =>
          /\ combined_df' = <<>>
          /\ outcome' = "returned"
          /\ frames' = NoFrames
          /\ mode' = "none"
          /\ UNCHANGED <<history_product_dimension, current_product_dimension,
                         fact_transaction_dimension>>]_vars

\* C23 witness: after a run that filled the tables, a run whose sales table
\* lacks the key has returned and the tables are still filled.
C23_RunWithoutKeyAfterLoad ==
    /\ runs = 2 /\ has_receipt_no = {"sales_by_product_df"}
    /\ outcome = "returned" /\ combined_df = <<>>
    /\ BagToSet(history_product_dimension) # {}

C25_MergeAllOrNothing ==
    (ret.fn = "_bulk_upsert_from_staging_etl" /\ ret.failed # 0) =>
        /\ ret.failed = 1 => ret.tables = <<EmptyBag, call.table>>
        /\ ret.failed = 2 =>
              /\ ret.tables[2] = call.table
              /\ ret.tables[1] = SetToBag({call.first[1]})

\* C25 witness: the upsert statement of the second step failed on its second
\* row after its first row had changed a row of the table; the table is as
\* before and the first table holds its row.
C25_SecondStepRolledBack ==
    /\ ret.fn = "_bulk_upsert_from_staging_etl" /\ ret.failed = 2
    /\ call.copy_fails_at = 0
    /\ Len(call.second) = 2
    /\ \E t \in BagToSet(call.table) :
          t.id = call.second[1].id /\ t # call.second[1]
    /\ ret.tables[1] # EmptyBag

\* C26: the artifacts a failed load left under its run prefix are neither
\* deleted nor put again by the run of another handler.
C26_RetainedBufferUntouched ==
    [][\A g \in Threads :
         run[g].loadResult = "raised" =>
            /\ (run[g].stagedObjs \cap staging) \subseteq staging'
            /\ \A h \in Threads \ {g} :
                  (run'[h].stagedObjs \ run[h].stagedObjs)
                      \cap run[g].stagedObjs = {}]_vars

\* C26 witness: the load of g failed in a merge with artifacts staged, and
\* a later run that was handed the same run_id has emptied the prefix.
C26_LaterRunSharedPrefix ==
    \E g \in Threads : \E h \in Threads \ {g} :
        /\ run[g].loadResult = "raised" /\ run[g].loadRaisedIn = "merge"
        /\ run[g].stagedObjs # {}
        /\ run[g].stagedObjs \cap staging = {}
        /\ run[h].loadResult = "returned" /\ run[h].purged
        /\ run[h].prefix = run[g].prefix

\* C27: a raw file leaves the landing bucket only in the clean-up of a run
\* whose extract had read it.
C27_ClearsOnlyExtracted ==
    [][\A f \in RawFiles :
         (f \in landing /\ f \notin landing') =>
            \E h \in Threads :
                /\ pc[h] = "pipeline" /\ run[h].phase = "clear"
                /\ f \in run[h].extracted]_vars

\* C27 witness: the clean-up of a run has emptied the landing bucket, which
\* held a file accepted after the run's extract.
C27_UploadedAfterExtract ==
    \E h \in Threads :
        /\ run[h].cleared /\ run[h].deleted_count > 0
        /\ run[h].extracted = {}
        /\ response = "ok"
        /\ landing = {}

\* C28: in a completed incremental run the last_transaction_datetime of the
\* current version of every product of the history is, after the run, greater
\* than or equal to what the product's current version held before it.
C28_DatetimeNeverDecreases ==
    [][(CompletedRun /\ mode' = "incremental") =>
         \A p \in HistoryProducts :
            CurrentVersion(p)'.last_transaction_datetime
                >= CurrentVersion(p).last_transaction_datetime]_vars

\* C28 witness: after an incremental run the current version of a product
\* carries an earlier datetime than the version it superseded.
C28_NewVersionEarlier ==
    /\ mode = "incremental" /\ outcome = "returned"
    /\ \E p \in HistoryProducts : \E t \in VersionsOf(p) :
          /\ ~t.is_current
          /\ t.record_version + 1 = CurrentVersion(p).record_version
          /\ t.last_transaction_datetime
                > CurrentVersion(p).last_transaction_datetime

\* The latest run of load() was on a non-empty frame and returned.
PreviousCompleted == runs > 0 /\ combined_df # <<>> /\ outcome = "returned"

\* Every line of the frame of this step is dated after every line of the
\* frame of the run before it.
LaterBatch ==
    \A i \in DOMAIN combined_df : \A j \in DOMAIN combined_df' :
        combined_df[i].date < combined_df'[j].date

\* The fact table of the next state has a row with the fact key of line
Published(line) ==
    \E t \in BagToSet(fact_transaction_dimension') :
        KeyOf(t, FactKey) = KeyOf(line, FactKey)

\* C29: when a completed run is followed by a completed run on a batch of
\* later dates, every line of the earlier batch whose month is strictly
\* earlier than the latest month ingested so far is in
\* fact_transaction_dimension after the second run: the lines the first run
\* held back as latest-month are published.
C29_HeldBackLinesPublished ==
    [][(PreviousCompleted /\ CompletedRun /\ LaterBatch) =>
         \A i \in DOMAIN combined_df :
            Month(combined_df[i].date) < LatestMonth(combined_df')
                => Published(combined_df[i])]_vars

\* C29 witness: two runs have returned, the second on lines of the latest
\* month; the history shows a product last sold in the month before, and
\* the fact table has no line of that month.
C29_EarlierMonthMissing ==
    /\ runs = 2 /\ outcome = "returned" /\ mode = "incremental"
    /\ combined_df # <<>>
    /\ \E t \in BagToSet(history_product_dimension) :
          /\ t.last_transaction_datetime # NaT
          /\ Month(t.last_transaction_datetime) < LatestMonth(combined_df)
          /\ \A f \in BagToSet(fact_transaction_dimension) :
                Month(f.date) # Month(t.last_transaction_datetime)

\* Handler h holds pipeline_lock or has released it and not yet removed the
\* marker in its finally block.
BetweenAcquireAndRemove(h) == pc[h] \in {"settle", "pipeline", "release", "remove"}

\* C30: from the moment a handler has acquired pipeline_lock until its own
\* finally block removes the marker, the trigger marker file exists: no
\* other handler invocation removes it in between.
C30_MarkerWhileRunning ==
    \A h \in Threads : BetweenAcquireAndRemove(h) => marker

\* C30 witness: a handler is inside execute_pipeline holding the lock, the
\* marker is gone and no event of the trigger is waiting.
C30_RunningWithoutMarker ==
    \E h \in Threads :
        /\ lock = h /\ pc[h] = "pipeline" /\ run[h].stage > 1
        /\ ~marker /\ queue = 0
        /\ \A g \in Threads \ {h} : pc[g] = "idle"

====
